---- MODULE Spec2Model ----
(***************************************************************************)
(* Model of wolsim.AgentBasedModel (src/wolsim/model.py): the grid state,  *)
(* the public operations and the per-cell growth / diffusion loops of      *)
(* update_virus, one action per loop step so that the states between the   *)
(* individual growth and hop updates are states of the model.              *)
(*                                                                         *)
(* Scaling.  The source's fixed patterns need a 16 x 16 grid (Wolbachia    *)
(* patch [:15, :15], seed cell [15, 15], barrier rows 7:13, barrier seed   *)
(* [2, 10]).  The model keeps their shape on a small grid: the patch is    *)
(* the top-left PatchCells, the seed is the last corner cell, the barrier  *)
(* is one full row.  Random draws (Poisson counts, directions, Bernoulli   *)
(* placement) are nondeterministic choices over their support, cut off at  *)
(* the bounds below.                                                       *)
(***************************************************************************)
EXTENDS Integers, Sequences, FiniteSets, TLC

\* ----------------------------------------------------------------- bounds
NX == 2          \* n_x of the constructed model
NY == 2          \* n_y of the constructed model
MaxPop == 2      \* cap on the total of one variant's field (growth guard)
MaxDraw == 2     \* largest Poisson growth / decay draw explored
MaxHops == 2     \* largest Poisson hop count explored
MaxSteps == 2    \* looping calls (run_time_step, update_virus) explored
MaxInit == 3     \* initialize_* calls explored
MaxCalls == 5    \* public calls explored

VARIABLES
  model, num_virus,                 \* the argument model (self.model), self.num_virus
  virus_grid, conc_grid, wolbachia_grid,
  virus_diffuse_rate, virus_growth_rate, virus_carrying_capacity,
  virus_grid_history, concentration_history,
  pc, call, raised,                 \* position, the looping call in progress / last, last exception
  k, idx,                           \* update_virus: variant and row-major cell index
  uv_v,                             \* update_virus: local v (line 227)
  dv_v, left, hops, coords,         \* _diffuse_virus: local v, individuals left, hops left, coords
  lastGrow, lastHop,                \* record of the last growth / hop performed in this visit
  pass,                             \* variant-k field and its total at the start of the pass, exits during it
  entry, missing,                   \* state at the start of run_time_step; a variant lacked parameters
  run                               \* calls made so far

vars == <<model, num_virus, virus_grid, conc_grid, wolbachia_grid,
          virus_diffuse_rate, virus_growth_rate, virus_carrying_capacity,
          virus_grid_history, concentration_history,
          pc, call, raised, k, idx, uv_v, dv_v, left, hops, coords,
          lastGrow, lastHop, pass, entry, missing, run>>

\* ------------------------------------------------------------ grid helpers
n_x == NX
n_y == NY
Cells == (0 .. n_x - 1) \X (0 .. n_y - 1)
NCells == n_x * n_y
zeros == [c \in Cells |-> 0]

\* range(n_x) x range(n_y), i outer and j inner
CellAt(n) == <<n \div n_y, n % n_y>>

InGrid(c) == 0 <= c[1] /\ c[1] < n_x /\ 0 <= c[2] /\ c[2] < n_y

RECURSIVE SumOver(_, _)
SumOver(g, S) ==
  IF S = {} THEN 0
  ELSE LET c == CHOOSE x \in S : TRUE IN g[c] + SumOver(g, S \ {c})

SumGrid(g) == SumOver(g, DOMAIN g)

Max(a, b) == IF a >= b THEN a ELSE b

\* dict[key] = value
DictSet(d, key, value) ==
  [x \in (DOMAIN d) \cup {key} |-> IF x = key THEN value ELSE d[x]]

\* the fixed patterns of initialize_*, scaled to the model grid
PatchCells == {c \in Cells : c[1] < 1 /\ c[2] < 1}
BarrierCells == {c \in Cells : 1 <= c[1] /\ c[1] < 2}
SeedCell == <<1, 1>>
BarrierSeedCell == <<0, 1>>

\* ----------------------------------------------------------- input domains
ModeInputs == {"signalling", "genetic", "a", ""}
VariantInputs == 0 .. num_virus - 1   \* the configured variants
ParamInputs ==
  { [d |-> 1, r |-> 1, K |-> 2], [d |-> 1, r |-> 0, K |-> 2], [d |-> 1, r |-> -1, K |-> 2] }
PInputs == {0, 1, 2}               \* p in halves: p = x / 2
Dirs == {"left", "right", "up", "down"}

\* np.random.poisson(lam): 0 when lam = 0, any count when lam > 0
Poisson(lam, bound) == IF lam > 0 THEN 0 .. bound ELSE {0}

\* ------------------------------------------------------------- snapshots
\* copy.deepcopy(x): a history entry that owns its value.  An entry that
\* only refers to the live object would show the object's current value.
shallow_ref(x) == [alias |-> TRUE, val |-> x]
deepcopy(x) == [alias |-> FALSE, val |-> x]

\* what a reader of virus_grid_history[n] sees
ViewVirus(e) == IF e.alias THEN virus_grid ELSE e.val
\* conc_grid is rebound, never written in place: an entry keeps its value
ViewConc(e) == e.val

VirusHistoryView == [n \in 1 .. Len(virus_grid_history) |-> ViewVirus(virus_grid_history[n])]
ConcHistoryView == [n \in 1 .. Len(concentration_history) |-> ViewConc(concentration_history[n])]

\* ----------------------------------------------------------- concentration
\* The PDE solve starts from an all-zero field each time, so its result is a
\* function of wolbachia_grid and virus_grid[0] alone; the result is named
\* by those inputs.  With no Wolbachia the zero field is the solution.
zero_conc == [eta |-> zeros, v |-> zeros]
Solve(eta, v) == IF eta = zeros THEN zero_conc ELSE [eta |-> eta, v |-> v]

update_concentration_result == Solve(wolbachia_grid, virus_grid[0])

\* --------------------------------------------------------------- ghosts
NoGrow == [sign |-> 0, draw |-> 0, target |-> -1, post |-> -1]
NoHop == [from |-> <<-1, -1>>, dir |-> "none", to |-> <<-1, -1>>, inb |-> FALSE, n |-> 0]
NoPass == [sum |-> 0, exited |-> 0, start |-> zeros]
NoEntry == [vg |-> <<>>, vh |-> <<>>, ch |-> <<>>, conc |-> zero_conc]
NoRun == [calls |-> 0, wol |-> 0, seeds |-> <<>>, steps |-> 0, loops |-> 0, other |-> FALSE]

\* -------------------------------------------------------------- __init__
\* lines 29-36: num_virus for a mode; 0 stands for the ValueError branch
variant_count_lenient(m) == IF m = "genetic" THEN 2 ELSE 1
variant_count(m) == IF m = "signalling" THEN 1 ELSE IF m = "genetic" THEN 2 ELSE 0

Init ==
  \E m \in ModeInputs :
    /\ model = m
    /\ num_virus = variant_count(m)
    /\ virus_grid = [x \in 0 .. num_virus - 1 |-> zeros]
    /\ conc_grid = zero_conc
    /\ wolbachia_grid = zeros
    /\ virus_diffuse_rate = <<>>
    /\ virus_carrying_capacity = <<>>
    /\ virus_growth_rate = <<>>
    /\ virus_grid_history = <<>>
    /\ concentration_history = <<>>
    /\ pc = IF num_virus > 0 THEN "idle" ELSE "no_object"
    /\ call = "none"
    /\ raised = IF num_virus > 0 THEN "none" ELSE "ValueError"
    /\ k = 0 /\ idx = 0 /\ uv_v = 0 /\ dv_v = 0 /\ left = 0 /\ hops = 0
    /\ coords = <<0, 0>>
    /\ lastGrow = NoGrow /\ lastHop = NoHop /\ pass = NoPass
    /\ entry = NoEntry /\ missing = FALSE
    /\ run = NoRun

Locals == <<k, idx, uv_v, dv_v, left, hops, coords>>
Ghosts == <<lastGrow, lastHop, pass, entry, missing>>
Params == <<virus_diffuse_rate, virus_growth_rate, virus_carrying_capacity>>
Fields == <<virus_grid, conc_grid, wolbachia_grid>>
Histories == <<virus_grid_history, concentration_history>>
Fixed == <<model, num_virus>>

InitCalls == run.wol + Len(run.seeds)
Called == [run EXCEPT !.calls = @ + 1]
Dirty == [Called EXCEPT !.other = TRUE]

\* Locals and per-visit records outside a pass
ResetLocals ==
  /\ k' = 0 /\ idx' = 0 /\ uv_v' = 0 /\ dv_v' = 0 /\ left' = 0 /\ hops' = 0
  /\ coords' = <<0, 0>>
  /\ lastGrow' = NoGrow /\ lastHop' = NoHop /\ pass' = NoPass

\* A public call that is not run_time_step returns (or raises) at once
Returns(name, exc) ==
  /\ run.calls < MaxCalls
  /\ pc' = "idle" /\ call' = "none" /\ raised' = exc
  /\ entry' = NoEntry /\ missing' = FALSE
  /\ ResetLocals

\* ------------------------------------------------- set_virus_parameters
set_virus_parameters(diffuse_rate, growth_rate, carrying_capacity, virus_num) ==
  /\ pc = "idle"
  /\ virus_diffuse_rate' = DictSet(virus_diffuse_rate, virus_num, diffuse_rate)
  /\ virus_growth_rate' = DictSet(virus_growth_rate, virus_num, growth_rate)
  /\ virus_carrying_capacity' = DictSet(virus_carrying_capacity, virus_num, carrying_capacity)
  /\ Returns("set_virus_parameters", "none")
  /\ run' = Called
  /\ UNCHANGED <<Fixed, Fields, Histories>>

\* ------------------------------------------------- initialize_wolbachia
\* np.random.choice((0, 1), p=[1-p, p]): rejects p outside [0, 1]; p = 0 and
\* p = 1 leave one outcome, any other p leaves both for every patch cell.
PatchDraws(p) ==
  { w \in [PatchCells -> {0, 1}] :
      /\ p = 0 => \A c \in PatchCells : w[c] = 0
      /\ p = 2 => \A c \in PatchCells : w[c] = 1 }

AfterInit == [Called EXCEPT !.other = @ \/ run.loops > 0]

initialize_wolbachia(p) ==
  /\ pc = "idle"
  /\ InitCalls < MaxInit
  /\ IF p < 0 \/ p > 2
       THEN /\ Returns("initialize_wolbachia", "ValueError")
            /\ run' = Called
            /\ UNCHANGED <<Fixed, Fields, Params, Histories>>
       ELSE \E w \in PatchDraws(p) :
            LET eta == [c \in Cells |-> IF c \in PatchCells THEN w[c] ELSE wolbachia_grid[c]]
                s == Solve(eta, virus_grid[0])
            IN /\ wolbachia_grid' = eta
               /\ conc_grid' = s
               /\ concentration_history' = Append(concentration_history, deepcopy(s))
               /\ run' = [AfterInit EXCEPT !.wol = @ + 1]
               /\ Returns("initialize_wolbachia", "none")
               /\ UNCHANGED <<Fixed, virus_grid, Params, virus_grid_history>>

initialize_wolbachia_barrier ==
  /\ pc = "idle"
  /\ InitCalls < MaxInit
  /\ LET eta == [c \in Cells |-> IF c \in BarrierCells THEN 1 ELSE wolbachia_grid[c]]
         s == Solve(eta, virus_grid[0])
     IN /\ wolbachia_grid' = eta
        /\ conc_grid' = s
        /\ concentration_history' = Append(concentration_history, deepcopy(s))
  /\ run' = [AfterInit EXCEPT !.wol = @ + 1]
  /\ Returns("initialize_wolbachia_barrier", "none")
  /\ UNCHANGED <<Fixed, virus_grid, Params, virus_grid_history>>

\* ----------------------------------------------------- initialize_virus
\* self.virus_grid[virus_num][cell] = 1, then the snapshot
Seed(name, virus_num, cell) ==
  /\ pc = "idle"
  /\ InitCalls < MaxInit
  /\ IF virus_num \notin DOMAIN virus_grid
       THEN /\ Returns(name, "KeyError")
            /\ run' = Called
            /\ UNCHANGED <<Fixed, Fields, Params, Histories>>
       ELSE IF ~InGrid(cell)
       THEN /\ Returns(name, "IndexError")
            /\ run' = Called
            /\ UNCHANGED <<Fixed, Fields, Params, Histories>>
       ELSE LET g == [virus_grid EXCEPT ![virus_num][cell] = 1]
            IN /\ virus_grid' = g
               /\ virus_grid_history' = Append(virus_grid_history, deepcopy(g))
               /\ run' = [AfterInit EXCEPT !.seeds = Append(@, virus_num)]
               /\ Returns(name, "none")
               /\ UNCHANGED <<Fixed, conc_grid, wolbachia_grid, Params, concentration_history>>

initialize_virus_barrier == Seed("initialize_virus_barrier", 0, BarrierSeedCell)

initialize_virus(virus_num) == Seed("initialize_virus", virus_num, SeedCell)

\* ------------------------------------------------- update_concentration
update_concentration ==
  /\ pc = "idle"
  /\ conc_grid' = update_concentration_result
  /\ run' = Dirty
  /\ Returns("update_concentration", "none")
  /\ UNCHANGED <<Fixed, virus_grid, wolbachia_grid, Params, Histories>>

\* --------------------------------------------------------- update_virus
StartPass(name, kk) ==
  /\ run.calls < MaxCalls
  /\ pc' = "visit" /\ call' = name /\ raised' = "none"
  /\ k' = kk /\ idx' = 0
  /\ uv_v' = 0 /\ dv_v' = 0 /\ left' = 0 /\ hops' = 0 /\ coords' = <<0, 0>>
  /\ lastGrow' = NoGrow /\ lastHop' = NoHop
  /\ pass' = [sum |-> SumGrid(virus_grid[kk]), exited |-> 0, start |-> virus_grid[kk]]

\* public call update_virus(k)
update_virus(kk) ==
  /\ pc = "idle"
  /\ run.loops < MaxSteps
  /\ run' = [Dirty EXCEPT !.loops = @ + 1]
  /\ IF kk \notin DOMAIN virus_grid
       THEN Returns("update_virus", "KeyError")
       ELSE /\ StartPass("update_virus", kk)
            /\ entry' = NoEntry /\ missing' = FALSE
  /\ UNCHANGED <<Fixed, Fields, Params, Histories>>

\* run_time_step, line 235: enters update_virus(0)
run_time_step ==
  /\ pc = "idle"
  /\ run.loops < MaxSteps
  /\ run' = [Called EXCEPT !.steps = @ + 1, !.loops = @ + 1]
  /\ StartPass("run_time_step", 0)
  /\ entry' = [vg |-> virus_grid, vh |-> virus_grid_history,
               ch |-> concentration_history, conc |-> conc_grid]
  /\ missing' = (\E kk \in 0 .. num_virus - 1 : kk \notin DOMAIN virus_growth_rate)
  /\ UNCHANGED <<Fixed, Fields, Params, Histories>>

\* The loops of update_virus / run_time_step move on after cell idx: next
\* cell, next variant's pass, the tail of run_time_step, or return.
AfterCell ==
  /\ uv_v' = 0 /\ dv_v' = 0 /\ left' = 0 /\ hops' = 0 /\ coords' = <<0, 0>>
  /\ lastGrow' = NoGrow /\ lastHop' = NoHop
  /\ IF idx + 1 < NCells
       THEN /\ pc' = "visit" /\ idx' = idx + 1 /\ k' = k /\ pass' = pass
       ELSE IF call = "run_time_step" /\ k + 1 < num_virus
       THEN /\ pc' = "visit" /\ idx' = 0 /\ k' = k + 1
            /\ pass' = [sum |-> SumGrid(virus_grid[k + 1]), exited |-> 0,
                         start |-> virus_grid[k + 1]]
       ELSE IF call = "run_time_step"
       THEN /\ pc' = "finish" /\ idx' = 0 /\ k' = 0 /\ pass' = NoPass
       ELSE /\ pc' = "idle" /\ idx' = 0 /\ k' = 0 /\ pass' = NoPass

\* lines 227-228: v = self.virus_grid[k][i, j]; if v > 0
visit ==
  /\ pc = "visit"
  /\ LET v == virus_grid[k][CellAt(idx)]
     IN IF v > 0
          THEN /\ pc' = "grow" /\ uv_v' = v
               /\ UNCHANGED <<k, idx, dv_v, left, hops, coords, lastGrow, lastHop, pass>>
          ELSE AfterCell
  /\ UNCHANGED <<Fixed, Fields, Params, Histories, call, raised, entry, missing, run>>

\* ---------------------------------------------------------- _grow_virus
\* sum([self.virus_grid[k][i, j] for k in range(self.num_virus)])
total_virus(c) == SumOver([kk \in 0 .. num_virus - 1 |-> virus_grid[kk][c]], 0 .. num_virus - 1)

\* The sign of growth: growth = r * [exp(-20 conc)] * v * (1 - total / K)
\* with K > 0 and exp(..) > 0 has the sign of r * v * (K - total).
growth(kk, c) ==
  virus_growth_rate[kk] * virus_grid[kk][c] * (virus_carrying_capacity[kk] - total_virus(c))

\* which variant a positive increment is credited to (lines 211-217)
credit_to_k(kk, c) == kk
credited(kk, c) ==
  IF num_virus = 1 THEN kk
  ELSE IF wolbachia_grid[c] = 1 THEN 1 ELSE kk

\* line 220: max(0, v - np.random.poisson(-growth))
decay_unfloored(v, d) == v - d
decay(v, d) == Max(0, v - d)

\* lines 202-207: the dict lookups raise KeyError for a variant without parameters
lookup_raises_on_zero(kk) ==
  \/ kk \notin DOMAIN virus_growth_rate
  \/ kk \notin DOMAIN virus_carrying_capacity
  \/ virus_growth_rate[kk] = 0
lookup_raises(kk) ==
  kk \notin DOMAIN virus_growth_rate \/ kk \notin DOMAIN virus_carrying_capacity

grow_virus ==
  /\ pc = "grow"
  /\ LET c == CellAt(idx) IN
     IF lookup_raises(k)
       THEN \* the dict lookup raises; the exception leaves update_virus and run_time_step
            /\ pc' = "idle" /\ raised' = "KeyError"
            /\ ResetLocals
            /\ run' = [run EXCEPT !.other = TRUE]
            /\ UNCHANGED <<virus_grid, entry, missing>>
       ELSE LET v == virus_grid[k][c]
                g == growth(k, c)
            IN /\ IF g > 0
                    THEN \E d \in Poisson(g, MaxDraw) :
                         LET t == credited(k, c)
                             new == IF num_virus = 1 THEN v + d ELSE virus_grid[t][c] + d
                         IN /\ d = 0 \/ SumGrid(virus_grid[t]) + d <= MaxPop
                            /\ virus_grid' = [virus_grid EXCEPT ![t][c] = new]
                            /\ lastGrow' = [sign |-> 1, draw |-> d, target |-> t,
                                            post |-> virus_grid'[k][c]]
                    ELSE IF g < 0
                    THEN \E d \in Poisson(-g, MaxDraw) :
                         /\ virus_grid' = [virus_grid EXCEPT ![k][c] = decay(v, d)]
                         /\ lastGrow' = [sign |-> -1, draw |-> d, target |-> k,
                                         post |-> virus_grid'[k][c]]
                    ELSE /\ virus_grid' = virus_grid
                         /\ lastGrow' = [sign |-> 0, draw |-> 0, target |-> k,
                                         post |-> virus_grid[k][c]]
               /\ pc' = "diffuse"
               /\ UNCHANGED <<raised, k, idx, uv_v, dv_v, left, hops, coords,
                              lastHop, pass, entry, missing, run>>
  /\ UNCHANGED <<Fixed, conc_grid, wolbachia_grid, Params, Histories, call>>

\* ------------------------------------------------------- _diffuse_virus
\* line 153: v = self.virus_grid[k][i, j], read when _diffuse_virus is entered
diffuse_count_captured(kk, c) == uv_v
diffuse_count(kk, c) == virus_grid[kk][c]

diffuse_begin ==
  /\ pc = "diffuse"
  /\ dv_v' = diffuse_count(k, CellAt(idx))
  /\ left' = dv_v'
  /\ pc' = "indiv"
  /\ UNCHANGED <<Fixed, Fields, Params, Histories, call, raised, k, idx, uv_v, hops,
                 coords, lastGrow, lastHop, pass, entry, missing, run>>

\* lines 155-158: next individual, its number of hops, coords = (i, j)
diffuse_individual ==
  /\ pc = "indiv"
  /\ IF left > 0
       THEN \E n \in Poisson(virus_diffuse_rate[k], MaxHops) :
            /\ hops' = n
            /\ coords' = CellAt(idx)
            /\ left' = left - 1
            /\ lastHop' = NoHop
            /\ pc' = IF n > 0 THEN "hop" ELSE "indiv"
            /\ UNCHANGED <<k, idx, uv_v, dv_v, lastGrow, pass>>
       ELSE AfterCell
  /\ UNCHANGED <<Fixed, Fields, Params, Histories, call, raised, entry, missing, run>>

\* lines 165-175: the destination is computed from the arguments i, j
new_coords(dir, i, j) ==
  IF dir = "left" THEN <<i - 1, j>>
  ELSE IF dir = "right" THEN <<i + 1, j>>
  ELSE IF dir = "up" THEN <<i, j + 1>>
  ELSE <<i, j - 1>>

\* the 4-neighbour of a cell in a direction
Neighbour(c, dir) == new_coords(dir, c[1], c[2])

\* line 163: self.virus_grid[k][*coords] -= 1
depart_skipped(g, kk, c) == g
depart(g, kk, c) == [g EXCEPT ![kk][c] = @ - 1]

\* line 179: self.virus_grid[k][*new_coords] += 1
arrive(g, kk, c) == [g EXCEPT ![kk][c] = @ + 1]

\* lines 161-183: one hop
diffuse_hop ==
  /\ pc = "hop"
  /\ \E dir \in Dirs :
     LET src == CellAt(idx)
         nc == new_coords(dir, src[1], src[2])
         g1 == depart(virus_grid, k, coords)
     IN IF InGrid(nc)
          THEN /\ virus_grid' = arrive(g1, k, nc)
               /\ coords' = nc
               /\ hops' = hops - 1
               /\ pc' = IF hops - 1 > 0 THEN "hop" ELSE "indiv"
               /\ pass' = pass
               /\ lastHop' = [from |-> coords, dir |-> dir, to |-> nc, inb |-> TRUE,
                              n |-> lastHop.n + 1]
          ELSE /\ virus_grid' = g1
               /\ coords' = coords
               /\ hops' = 0
               /\ pc' = "indiv"
               /\ pass' = [pass EXCEPT !.exited = @ + 1]
               /\ lastHop' = [from |-> coords, dir |-> dir, to |-> nc, inb |-> FALSE,
                              n |-> lastHop.n + 1]
  /\ UNCHANGED <<Fixed, conc_grid, wolbachia_grid, Params, Histories, call, raised,
                 k, idx, uv_v, dv_v, left, lastGrow, entry, missing, run>>

\* ------------------------------------------- run_time_step, lines 238-242
recompute_always == TRUE
recomputes_concentration == num_virus = 1

run_time_step_finish ==
  /\ pc = "finish"
  /\ IF recomputes_concentration
       THEN /\ conc_grid' = update_concentration_result
            /\ concentration_history' = Append(concentration_history, deepcopy(conc_grid'))
       ELSE UNCHANGED <<conc_grid, concentration_history>>
  /\ virus_grid_history' = Append(virus_grid_history, deepcopy(virus_grid))
  /\ pc' = "idle"
  /\ entry' = NoEntry
  /\ UNCHANGED <<Fixed, virus_grid, wolbachia_grid, Params, call, raised, Locals,
                 lastGrow, lastHop, pass, missing, run>>

\* ------------------------------------------------------------------ Next
Next ==
  \/ \E q \in ParamInputs, vn \in VariantInputs : set_virus_parameters(q.d, q.r, q.K, vn)
  \/ \E p \in PInputs : initialize_wolbachia(p)
  \/ initialize_wolbachia_barrier
  \/ initialize_virus_barrier
  \/ \E vn \in VariantInputs : initialize_virus(vn)
  \/ update_concentration
  \/ \E kk \in VariantInputs : update_virus(kk)
  \/ run_time_step
  \/ visit
  \/ grow_virus
  \/ diffuse_begin
  \/ diffuse_individual
  \/ diffuse_hop
  \/ run_time_step_finish

Spec == Init /\ [][Next]_vars

InPass == pc \in {"visit", "grow", "diffuse", "indiv", "hop"}
Cell == CellAt(idx)

\* C1: every entry of every virus field is >= 0 in every reachable state,
\* the states between growth and hop updates inside a pass included, and
\* the cell a hop is about to decrement holds at least one individual.
C1_NonNegative ==
  /\ \A kk \in DOMAIN virus_grid : \A c \in Cells : virus_grid[kk][c] >= 0
  /\ pc = "hop" => virus_grid[k][coords] >= 1

\* a decay draw larger than the population was floored at 0, and diffusion went on
C1_Witness ==
  /\ pc = "indiv"
  /\ lastGrow.sign = -1 /\ lastGrow.draw > uv_v
  /\ virus_grid[k][Cell] = 0

\* C2: with growth rate 0 for variant k, at every point of an update_virus(k)
\* pass the field total at the start of the pass equals the current total
\* plus the number of hops that left the grid.
C2_Conservation ==
  (InPass /\ k \in DOMAIN virus_growth_rate /\ virus_growth_rate[k] = 0)
    => pass.sum = SumGrid(virus_grid[k]) + pass.exited

\* a zero-growth pass in which one individual left the grid and another hopped inside it
C2_Witness ==
  /\ InPass /\ k \in DOMAIN virus_growth_rate /\ virus_growth_rate[k] = 0
  /\ pass.exited >= 1 /\ lastHop.inb /\ SumGrid(virus_grid[k]) >= 1

\* C3: every hop goes from the cell the individual occupies to that cell's
\* neighbour in the drawn direction; an individual in an edge cell (0, j)
\* that draws 'left' leaves the grid and hops no more.
C3_HopsFromCurrentCell ==
  lastHop # NoHop =>
    /\ lastHop.to = Neighbour(lastHop.from, lastHop.dir)
    /\ (lastHop.from[1] = 0 /\ lastHop.dir = "left") => (~lastHop.inb /\ pc # "hop")

\* A run made of a complete initialization followed only by run_time_step
\* calls, at rest: bacteria initialised once, every seeded variant seeded
\* once, no other field-changing call, no failed step.
Last(h) == h[Len(h)]
CompleteInitThenSteps ==
  /\ pc = "idle" /\ raised = "none"
  /\ ~run.other
  /\ run.wol = 1
  /\ Len(run.seeds) >= 1
  /\ \A a, b \in 1 .. Len(run.seeds) : a # b => run.seeds[a] # run.seeds[b]

\* C4: after a complete initialization and n steps virus_grid_history has
\* n+1 entries, the last one showing the current virus fields; in signalling
\* mode concentration_history has n+1 entries, the last one the current
\* concentration.
C4_HistoryIndexedByStep ==
  CompleteInitThenSteps =>
    /\ Len(virus_grid_history) = run.steps + 1
    /\ ViewVirus(Last(virus_grid_history)) = virus_grid
    /\ model = "signalling" =>
         /\ Len(concentration_history) = run.steps + 1
         /\ ViewConc(Last(concentration_history)) = conc_grid

\* C5 (as stated): a run_time_step called while a configured variant has no
\* parameters ends in an error with the fields and histories as at the call.
C5_FailsBeforeAnyChange ==
  (pc = "idle" /\ call = "run_time_step" /\ missing) =>
    /\ raised = "KeyError"
    /\ virus_grid = entry.vg /\ conc_grid = entry.conc
    /\ virus_grid_history = entry.vh /\ concentration_history = entry.ch

\* C5 (amended): a visit raises KeyError exactly when the visited variant has
\* no parameters, it raises before changing anything, and a run_time_step
\* that ended in KeyError has appended to neither history, left conc_grid
\* alone and, in signalling mode, left the virus field as it was at the call.
C5_AfterKeyError ==
  (pc = "idle" /\ call = "run_time_step" /\ raised = "KeyError") =>
    /\ missing
    /\ conc_grid = entry.conc
    /\ virus_grid_history = entry.vh /\ concentration_history = entry.ch
    /\ num_virus = 1 => virus_grid = entry.vg

C5_RaisesAtVisit ==
  /\ pc = "grow" =>
       /\ (raised' = "KeyError") <=> (k \notin DOMAIN virus_growth_rate)
       /\ raised' = "KeyError" => (pc' = "idle" /\ virus_grid' = virus_grid)
  /\ (pc # "grow" /\ pc # "idle") => raised' = "none"

C5_FailsOnlyAtPopulatedCell == [](C5_AfterKeyError) /\ [][C5_RaisesAtVisit]_vars

\* genetic mode: variant 0's pass changed the fields, then variant 1's pass raised
C5_Witness ==
  /\ pc = "idle" /\ call = "run_time_step" /\ raised = "KeyError"
  /\ num_virus = 2 /\ virus_grid # entry.vg

\* C6: 'signalling' gives num_virus = 1 and fields {0}, 'genetic' gives
\* num_virus = 2 and fields {0, 1}, any other mode raises ValueError and
\* leaves no object; num_virus and the field keys never change.
C6_Constructed ==
  /\ model = "signalling" => (pc # "no_object" /\ num_virus = 1 /\ DOMAIN virus_grid = {0})
  /\ model = "genetic" => (pc # "no_object" /\ num_virus = 2 /\ DOMAIN virus_grid = {0, 1})
  /\ model \notin {"signalling", "genetic"} => (pc = "no_object" /\ raised = "ValueError")

C6_KeysFixed ==
  /\ model' = model
  /\ num_virus' = num_virus
  /\ DOMAIN virus_grid' = DOMAIN virus_grid

C6_ModeDecidesVariants == [](C6_Constructed) /\ [][C6_KeysFixed]_vars

\* a genetic model after seeding variant 1 and running a step
C6_Witness ==
  /\ model = "genetic" /\ pc = "idle" /\ call = "run_time_step"
  /\ 1 \in DOMAIN virus_growth_rate
  /\ Len(virus_grid_history) >= 2

\* C7: every step leaves each history as it was or with one entry appended,
\* and what each existing entry shows never changes.
AppendOnly(h, h2) ==
  /\ Len(h2) \in {Len(h), Len(h) + 1}
  /\ \A n \in 1 .. Len(h) : h2[n] = h[n]

C7_Step ==
  /\ AppendOnly(VirusHistoryView, VirusHistoryView')
  /\ AppendOnly(ConcHistoryView, ConcHistoryView')

C7_HistoryAppendOnly == [][C7_Step]_vars

\* after a step the live fields differ from what the first snapshot shows
C7_Witness ==
  /\ pc = "idle" /\ call = "run_time_step" /\ raised = "none"
  /\ Len(virus_grid_history) >= 2
  /\ ViewVirus(virus_grid_history[1]) # virus_grid
  /\ Len(concentration_history) >= 2

\* C8: no step of run_time_step changes wolbachia_grid; in genetic mode none
\* changes conc_grid or concentration_history.
InRunTimeStep == call = "run_time_step" /\ pc # "idle"

C8_Step ==
  (InRunTimeStep \/ InRunTimeStep') =>
    /\ wolbachia_grid' = wolbachia_grid
    /\ model = "genetic" =>
         /\ conc_grid' = conc_grid
         /\ concentration_history' = concentration_history

C8_NoRecomputeInGenetic == [][C8_Step]_vars

\* a finished genetic step after which a recomputation would give another field
C8_Witness ==
  /\ model = "genetic" /\ pc = "idle" /\ call = "run_time_step" /\ raised = "none"
  /\ Len(concentration_history) = 1
  /\ conc_grid # update_concentration_result

\* C9: in genetic mode _grow_virus(k, i, j) with positive growth adds the
\* draw to variant 1 in a Wolbachia cell and to variant k elsewhere, with
\* negative growth subtracts the draw from variant k floored at 0, and
\* changes no other entry.
C9_Step ==
  (pc = "grow" /\ pc' = "diffuse" /\ num_virus = 2) =>
    LET c == Cell
        d == lastGrow'.draw
        g == growth(k, c)
        t == IF g > 0 /\ wolbachia_grid[c] = 1 THEN 1 ELSE k
        expect == IF g > 0 THEN virus_grid[t][c] + d
                  ELSE IF g < 0 THEN Max(0, virus_grid[k][c] - d)
                  ELSE virus_grid[k][c]
    IN /\ virus_grid'[t][c] = expect
       /\ virus_grid'[1 - t][c] = virus_grid[1 - t][c]
       /\ \A kk \in {0, 1} : \A x \in Cells \ {c} : virus_grid'[kk][x] = virus_grid[kk][x]

C9_GrowthRouting == [][C9_Step]_vars

\* variant 0 grew in a Wolbachia cell that held no variant 1: the draw went to variant 1
C9_Witness ==
  /\ num_virus = 2 /\ pc = "diffuse" /\ k = 0
  /\ wolbachia_grid[Cell] = 1
  /\ lastGrow.sign = 1 /\ lastGrow.draw > 0
  /\ virus_grid[1][Cell] = lastGrow.draw
  /\ virus_grid[0][Cell] = uv_v

\* C10 (as stated): diffusion iterates over the count captured by
\* update_virus before growth.
C10_DiffusesPreGrowthCount ==
  pc \in {"indiv", "hop"} => dv_v = uv_v

\* C10 (amended): diffusion iterates over the variant-k population of the
\* cell as growth left it.
C10_DiffusesPostGrowthCount ==
  pc \in {"indiv", "hop"} => dv_v = lastGrow.post

\* growth added individuals and diffusion iterates over them too
C10_Witness ==
  /\ pc = "indiv" /\ left = dv_v
  /\ lastGrow.sign = 1 /\ lastGrow.draw > 0 /\ lastGrow.target = k
  /\ dv_v = uv_v + lastGrow.draw

\* C11: in an update_virus(k) pass a cell whose variant-k population was 0
\* at the start of the pass is never grown or diffused and causes no random
\* draw, also when individuals hopped into it earlier in the same pass.
C11_ZeroAtPassStartSkipped ==
  pc \in {"grow", "diffuse", "indiv", "hop"} => pass.start[Cell] > 0

====
